---- MODULE Spec2Model ----
(***************************************************************************)
(* kvs: the log-structured KvStore (src/src/lib.rs) and the shared-queue   *)
(* thread pool (src/src/thread_pool.rs).                                   *)
(*                                                                         *)
(* The log file is modelled as the sequence of its lines.  A line is the   *)
(* serde_json text of one Command, kept as its JSON structure:             *)
(*   {"Set":{"k":K,"v":V}}  is  <<"Set", <<K, V>>>>                        *)
(*   {"Remove":K}           is  <<"Remove", K>>                            *)
(* Offsets are 0-based line numbers, as br.lines().enumerate() gives them. *)
(***************************************************************************)
EXTENDS Integers, Sequences, FiniteSets, TLC

VARIABLES
    log,              \* lines of <dir>/log.log
    index,            \* KvStore.index : key -> offset (partial map)
    cache,            \* KvStore.cache : Vec<Command>
    cached_commands,  \* KvStore.cached_commands
    new_log,          \* compact_log's new_log : Vec<Command>
    pc,               \* position of the store's current call
    cur,              \* the call in progress (or the last one completed)
    ret,              \* the value the last completed call returned
    last,             \* history: last value successfully written per key
    was,              \* history: last[k] when the last completed call began
    len_before,       \* history: number of log lines when that call began
    pre_get,          \* history: get results with the uncompacted log
    pre_log,          \* history: the log when compact_log was entered
    compacted,        \* history: the last completed call ran compact_log
    before_drop,      \* history: get results when the store was dropped
    crashed,          \* history: the process was stopped inside a call
    ops,              \* number of set/remove calls made so far
    job_queue,        \* SharedQueueThreadPool.job_queue : VecDeque<ThreadPoolMessage>
    mutex,            \* the thread holding the job_queue Mutex, or Free
    threads_spawned,  \* the AtomicUsize shared with ThreadWatcher
    tpc,              \* position of every job thread
    tjob,             \* the job a job thread has dequeued
    wpc,              \* position of the watcher thread
    new_to_spawn,     \* watcher: iterations left of its for loop
    next_tid,         \* number of job threads created so far
    spawned,          \* number of jobs passed to spawn so far
    panics,           \* the jobs whose closure panics
    executed,         \* history: how often each job was run
    poisoned,         \* the job_queue Mutex is poisoned
    dropped,          \* the SharedQueueThreadPool value was dropped
    text,             \* network: the text handed to a parser
    typed,            \* network: number of pieces the text was put together from
    net_call,         \* network: the function that was applied
    net_in,           \* network: the Operation or Response it was applied to
    net_out,          \* network: what it returned, or the panic
    srv_pc,           \* kvs-server: position of main
    request,          \* kvs-server: the line read from the connection
    operation,        \* kvs-server: what parse_request returned for it
    responses,        \* kvs-server: the lines written to the connection
    engine_ops,       \* history: store calls made for the connection
    engine,           \* kvs-server: the --engine argument of the running process
    engine_file,      \* the content of ./engine in the data directory, or None
    \* a second KvStore value open on the same directory
    index2,           \* its index
    pc2,              \* "closed" or "open"
    cur2,             \* history: its call
    ret2,             \* what the call returned
    want2,            \* history: the last value written to the key of the call
    \* the caller of ThreadPool::spawn
    kind,             \* the implementation: "naive", "shared" or "rayon"
    caller_pc,        \* "idle", "install" (inside RayonThreadPool::spawn) or "panicked"
    caller_job,       \* the job of the spawn call the caller is in
    job_state         \* per job: "none", "submitted", "running", "done", "panicked"

storeVars == <<log, index, cache, cached_commands, new_log, pc, cur, ret, last, was,
               len_before, pre_get, pre_log, compacted, before_drop, crashed, ops>>

poolVars == <<job_queue, mutex, threads_spawned, tpc, tjob, wpc, new_to_spawn,
              next_tid, spawned, panics, executed, poisoned, dropped>>

netVars == <<text, typed, net_call, net_in, net_out>>

srvVars == <<srv_pc, request, operation, responses, engine_ops, engine, engine_file>>

hdlVars == <<index2, pc2, cur2, ret2, want2>>
callVars == <<kind, caller_pc, caller_job, job_state>>
moreVars == <<hdlVars, callVars>>

vars == <<storeVars, poolVars, netVars, srvVars, moreVars>>

\* no text was handed to the functions of network.rs
NoNet ==
    /\ text = <<>>
    /\ typed = 0
    /\ net_call = "none"
    /\ net_in = <<>>
    /\ net_out = <<>>

\* kvs-server was not started
NoServer ==
    /\ srv_pc = "down"
    /\ request = <<>>
    /\ operation = <<>>
    /\ responses = <<>>
    /\ engine_ops = 0
    /\ engine = <<"None">>
    /\ engine_file = <<"None">>

-----------------------------------------------------------------------------
(* Bounds and inputs *)

Keys == {"a", "b"}
Vals == {"x", "y"}

MaxOps == 3

\* the pool: threads passed to SharedQueueThreadPool::new, jobs passed to spawn
Threads == 2
MaxJobs == 3

\* A log left by an earlier run of the program: the calls set a x, set b x,
\* rm a, set b y repeated, n records in all.  Every rm follows a set of its
\* key, so each call succeeded, and with n <= log_threshold + 1 no call
\* compacted.
Pattern == << <<"Set", <<"a", "x">>>>, <<"Set", <<"b", "x">>>>,
              <<"Remove", "a">>, <<"Set", <<"b", "y">>>> >>
Prefill(n) == [i \in 1 .. n |-> Pattern[((i - 1) % Len(Pattern)) + 1]]
\* a log of n records: a is set twice, then b is set over and over
Overwrites(n) ==
    [i \in 1 .. n |-> IF i = 1 THEN <<"Set", <<"a", "x">>>>
                      ELSE IF i = 2 THEN <<"Set", <<"a", "y">>>>
                      ELSE <<"Set", <<"b", "x">>>>]

log_threshold == 500
cache_threshold == 1

-----------------------------------------------------------------------------
(* Values *)

None == <<"None">>
Some(v) == <<"Some", v>>
Ok(x) == <<"Ok", x>>
Err(m) == <<"Err", m>>
Unit == <<>>

SetCmd(k, v) == [type |-> "Set", k |-> k, v |-> v]
RemoveCmd(k) == [type |-> "Remove", k |-> k]

\* serde_json::to_string(&command)
to_string(command) ==
    IF command.type = "Set"
    THEN <<"Set", <<command.k, command.v>>>>
    ELSE <<"Remove", command.k>>

\* serde_json::from_str(&line)
from_str(line) ==
    IF line[1] = "Set"
    THEN [type |-> "Set", k |-> line[2][1], v |-> line[2][2]]
    ELSE [type |-> "Remove", k |-> line[2]]

\* The index HashMap<String, usize> is a function on Keys; Absent marks a key
\* the map does not contain.  HashMap::new / insert / remove / contains_key:
Absent == -1
EmptyIndex == [x \in Keys |-> Absent]
insert(idx, k, o) == [idx EXCEPT ![k] = o]
remove_key(idx, k) == [idx EXCEPT ![k] = Absent]
contains_key(idx, k) == idx[k] # Absent
keys_of(idx) == {k \in Keys : contains_key(idx, k)}

-----------------------------------------------------------------------------
(* KvStore::generate_index: the replay loop and the compaction trigger *)

\* faulty variant of index_step: a Remove record leaves the key in the index
index_step_keep(idx, command, offset) ==
    IF command.type = "Set"
    THEN insert(idx, command.k, offset)
    ELSE idx

index_step(idx, command, offset) ==
    IF command.type = "Set"
    THEN insert(idx, command.k, offset)
    ELSE remove_key(idx, command.k)

\* TRUE; makes the model checker evaluate v before it is passed on
Evaluated(v) == v = v

\* the for loop over offsets lo ..= hi, in increasing offset order (the range
\* is halved, and the first half evaluated before the second is entered, so
\* that the evaluation depth stays logarithmic in the log length)
RECURSIVE replay_range(_, _, _, _)
replay_range(lines, lo, hi, idx) ==
    IF lo > hi THEN idx
    ELSE IF lo = hi THEN index_step(idx, from_str(lines[lo + 1]), lo)
    ELSE LET mid == (lo + hi) \div 2
             first == replay_range(lines, lo, mid, idx)
         IN IF Evaluated(first)
            THEN replay_range(lines, mid + 1, hi, first)
            ELSE first

\* the index after the for loop of generate_index, started from self.index
generate_index(lines, idx) == replay_range(lines, 0, Len(lines) - 1, idx)

\* should_compact_log after the loop
should_compact_log(lines) ==
    \E offset \in 0 .. (Len(lines) - 1) : offset > log_threshold

-----------------------------------------------------------------------------
(* KvStore::add_or_replace_command_in_vec and the read loop of compact_log *)

\* vec.iter().position(|c| c is Set with the same key): 0 when there is none,
\* else the 1-based position of the first match
position(vec, k) ==
    LET hits == {i \in 1 .. Len(vec) : vec[i].type = "Set" /\ vec[i].k = k}
    IN IF hits = {} THEN 0
       ELSE CHOOSE i \in hits : \A j \in hits : i <= j

vec_remove(vec, i) == SubSeq(vec, 1, i - 1) \o SubSeq(vec, i + 1, Len(vec))

\* faulty variant of add_or_replace_command_in_vec: the Set record of a key
\* set before is overwritten where it stands
add_or_replace_command_in_vec_in_place(vec, command) ==
    IF command.type = "Set"
    THEN LET index_opt == position(vec, command.k)
         IN IF index_opt # 0
            THEN [vec EXCEPT ![index_opt] = SetCmd(command.k, command.v)]
            ELSE Append(vec, SetCmd(command.k, command.v))
    ELSE Append(vec, command)
add_or_replace_command_in_vec(vec, command) ==
    IF command.type = "Set"
    THEN LET index_opt == position(vec, command.k)
         IN IF index_opt # 0
            THEN Append(vec_remove(vec, index_opt), SetCmd(command.k, command.v))
            ELSE Append(vec, SetCmd(command.k, command.v))
    ELSE Append(vec, command)

\* the read loop of compact_log over lines lo ..= hi, in line order
RECURSIVE compact_range(_, _, _, _)
compact_range(lines, lo, hi, vec) ==
    IF lo > hi THEN vec
    ELSE IF lo = hi THEN add_or_replace_command_in_vec(vec, from_str(lines[lo]))
    ELSE LET mid == (lo + hi) \div 2
             first == compact_range(lines, lo, mid, vec)
         IN IF Evaluated(first)
            THEN compact_range(lines, mid + 1, hi, first)
            ELSE first

\* new_log of compact_log, then the lines it writes
compact_new_log(lines) == compact_range(lines, 1, Len(lines), <<>>)
compact_lines(lines) ==
    LET vec == compact_new_log(lines)
    IN [i \in 1 .. Len(vec) |-> to_string(vec[i])]

-----------------------------------------------------------------------------
(* KvStore::get *)

get(idx, lines, k) ==
    IF contains_key(idx, k)
    THEN IF idx[k] >= Len(lines)
         THEN Err("File pointer in index points to non-existant command")
         ELSE LET command == from_str(lines[idx[k] + 1])
              IN IF command.type = "Set"
                 THEN Ok(Some(command.v))
                 ELSE Err("File pointer in index points to remove command")
    ELSE Ok(None)

all_gets(idx, lines) == [k \in Keys |-> get(idx, lines, k)]

-----------------------------------------------------------------------------
(* Reference semantics of a log, used by the history variables and claims *)

concerns(line, k) == from_str(line).k = k

\* the 1-based number of the most recent line about k, 0 when there is none
last_line(lines, k) ==
    LET hits == {i \in 1 .. Len(lines) : concerns(lines[i], k)}
    IN IF hits = {} THEN 0
       ELSE CHOOSE i \in hits : \A j \in hits : j <= i

value_of(lines, k) ==
    LET i == last_line(lines, k)
    IN IF i = 0 THEN None
       ELSE IF lines[i][1] = "Set" THEN Some(lines[i][2][2]) ELSE None

values_of(lines) == [k \in Keys |-> value_of(lines, k)]

NoGets == <<>>
NoCall == <<"none">>

-----------------------------------------------------------------------------
(* The store: state after construction and one action per call or step *)

InitLogs == {<<>>, Prefill(log_threshold), Prefill(log_threshold + 1),
             Overwrites(log_threshold + 1)}

InitStore ==
    /\ log \in InitLogs
    /\ index = EmptyIndex
    /\ cache = <<>>
    /\ cached_commands = 0
    /\ new_log = <<>>
    /\ pc = "closed"
    /\ cur = NoCall
    /\ ret = NoCall
    /\ last = values_of(log)
    /\ was = None
    /\ len_before = 0
    /\ pre_get = NoGets
    /\ pre_log = <<>>
    /\ compacted = FALSE
    /\ before_drop = NoGets
    /\ crashed = FALSE
    /\ ops = 0

\* the lines write_cached_to_log appends: cache[cached_start ..= latest_index]
cached_lines(c, n) == [i \in 1 .. n |-> to_string(c[Len(c) - n + i])]

\* write_cached_to_log followed by generate_index, up to the point where
\* generate_index either returns or enters compact_log
write_cached_to_log(c, n, call) ==
    IF n <= 0
    THEN /\ cache' = c
         /\ cached_commands' = n
         /\ pc' = IF call[1] = "drop" THEN "closed" ELSE "open"
         /\ ret' = Ok(Unit)
         /\ compacted' = FALSE
         /\ index' = IF call[1] = "drop" THEN EmptyIndex ELSE index
         /\ UNCHANGED <<log, pre_get, pre_log>>
    ELSE LET log1 == log \o cached_lines(c, n)
             idx1 == generate_index(log1, index)
         IN /\ log' = log1
            /\ cache' = <<>>
            /\ cached_commands' = 0
            /\ IF should_compact_log(log1)
               THEN /\ pc' = "compact_log"
                    /\ index' = idx1
                    /\ pre_get' = all_gets(idx1, log1)
                    /\ pre_log' = log1
                    /\ UNCHANGED <<ret, compacted>>
               ELSE /\ pc' = IF call[1] = "drop" THEN "closed" ELSE "open"
                    /\ index' = IF call[1] = "drop" THEN EmptyIndex ELSE idx1
                    /\ ret' = Ok(Unit)
                    /\ compacted' = FALSE
                    /\ UNCHANGED <<pre_get, pre_log>>

\* raise_cached_commands(1) after self.cache.push(command)
raise_cached_commands(command, call) ==
    LET c == Append(cache, command)
        n == cached_commands + 1
    IN IF n >= cache_threshold
       THEN write_cached_to_log(c, n, call)
       ELSE /\ cache' = c
            /\ cached_commands' = n
            /\ pc' = "open"
            /\ ret' = Ok(Unit)
            /\ compacted' = FALSE
            /\ UNCHANGED <<log, index, pre_get, pre_log>>

\* KvStore::open: the call itself
kv_open ==
    /\ pc = "closed"
    /\ cur' = <<"open">>
    /\ was' = None
    /\ len_before' = Len(log)
    /\ cache' = <<>>
    /\ cached_commands' = 0
    /\ LET idx1 == generate_index(log, EmptyIndex)
       IN /\ index' = idx1
          /\ IF should_compact_log(log)
             THEN /\ pc' = "compact_log"
                  /\ pre_get' = all_gets(idx1, log)
                  /\ pre_log' = log
                  /\ UNCHANGED <<ret, compacted>>
             ELSE /\ pc' = "open"
                  /\ ret' = Ok(Unit)
                  /\ compacted' = FALSE
                  /\ UNCHANGED <<pre_get, pre_log>>
    /\ UNCHANGED <<log, new_log, last, before_drop, crashed, ops>>

\* KvStore::open, called on its own
Open ==
    /\ kv_open
    /\ UNCHANGED <<poolVars, netVars, srvVars, moreVars>>

\* KvStore::set: the call itself
kv_set(k, v) ==
    /\ pc = "open"
    /\ ops < MaxOps
    /\ ops' = ops + 1
    /\ cur' = <<"set", k, v>>
    /\ was' = last[k]
    /\ len_before' = Len(log)
    /\ last' = [last EXCEPT ![k] = Some(v)]
    /\ raise_cached_commands(SetCmd(k, v), <<"set", k, v>>)
    /\ UNCHANGED <<new_log, before_drop, crashed>>

\* KvStore::set, called on its own
SetCall(k, v) ==
    /\ kv_set(k, v)
    /\ UNCHANGED <<poolVars, netVars, srvVars, moreVars>>

\* KvStore::get: the call itself
kv_get(k) ==
    /\ pc = "open"
    /\ cur' = <<"get", k>>
    /\ was' = last[k]
    /\ len_before' = Len(log)
    /\ ret' = get(index, log, k)
    /\ compacted' = FALSE
    /\ UNCHANGED <<log, index, cache, cached_commands, new_log, pc, last,
                   pre_get, pre_log, before_drop, crashed, ops>>

\* KvStore::get, called on its own
GetCall(k) ==
    /\ kv_get(k)
    /\ UNCHANGED <<poolVars, netVars, srvVars, moreVars>>

\* KvStore::remove: the call itself
kv_remove(k) ==
    /\ pc = "open"
    /\ ops < MaxOps
    /\ ops' = ops + 1
    /\ cur' = <<"remove", k>>
    /\ was' = last[k]
    /\ len_before' = Len(log)
    /\ LET entry_opt == get(index, log, k)
       IN IF entry_opt[1] = "Err"
          THEN /\ ret' = entry_opt
               /\ compacted' = FALSE
               /\ UNCHANGED <<log, index, cache, cached_commands, pc, last,
                              pre_get, pre_log>>
          ELSE IF entry_opt[2] # None
          THEN /\ last' = [last EXCEPT ![k] = None]
               /\ raise_cached_commands(RemoveCmd(k), <<"remove", k>>)
          ELSE /\ ret' = Err("Key not found")
               /\ compacted' = FALSE
               /\ UNCHANGED <<log, index, cache, cached_commands, pc, last,
                              pre_get, pre_log>>
    /\ UNCHANGED <<new_log, before_drop, crashed>>

\* KvStore::remove, called on its own
RemoveCall(k) ==
    /\ kv_remove(k)
    /\ UNCHANGED <<poolVars, netVars, srvVars, moreVars>>

\* compact_log up to open_writer(false): the file is read into new_log, then
\* OpenOptions .append(false).truncate(true).open() empties it
CompactTruncate ==
    /\ pc = "compact_log"
    /\ new_log' = compact_new_log(log)
    /\ log' = <<>>
    /\ pc' = "compact_write"
    /\ UNCHANGED <<index, cache, cached_commands, cur, ret, last, was, len_before,
                   pre_get, pre_log, compacted, before_drop, crashed, ops>>
    /\ UNCHANGED <<poolVars, netVars, srvVars, moreVars>>

\* compact_log from the write loop to bw.flush(), and the return of the call
\* that ran it.  The lines stay in the BufWriter until the flush: the logs
\* reached here are shorter than its 8 KiB buffer.
CompactWrite ==
    /\ pc = "compact_write"
    /\ log' = [i \in 1 .. Len(new_log) |-> to_string(new_log[i])]
    /\ new_log' = <<>>
    /\ pc' = IF cur[1] = "drop" THEN "closed" ELSE "open"
    /\ index' = IF cur[1] = "drop" THEN EmptyIndex ELSE index
    /\ ret' = Ok(Unit)
    /\ compacted' = TRUE
    /\ UNCHANGED <<cache, cached_commands, cur, last, was, len_before,
                   pre_get, pre_log, before_drop, crashed, ops>>
    /\ UNCHANGED <<poolVars, netVars, srvVars, moreVars>>

\* Drop for KvStore: the call itself
kv_drop ==
    /\ pc = "open"
    /\ cur' = <<"drop">>
    /\ was' = None
    /\ len_before' = Len(log)
    /\ before_drop' = all_gets(index, log)
    /\ write_cached_to_log(cache, cached_commands, <<"drop">>)
    /\ UNCHANGED <<new_log, last, crashed, ops>>

\* Drop for KvStore, called on its own
Drop ==
    /\ kv_drop
    /\ UNCHANGED <<poolVars, netVars, srvVars, moreVars>>

\* the process is stopped inside compact_log: memory is lost, the file stays
Stop ==
    /\ pc \in {"compact_log", "compact_write"}
    /\ pc' = "closed"
    /\ index' = EmptyIndex
    /\ cache' = <<>>
    /\ cached_commands' = 0
    /\ new_log' = <<>>
    /\ crashed' = TRUE
    /\ UNCHANGED <<log, cur, ret, last, was, len_before, pre_get, pre_log,
                   compacted, before_drop, ops>>
    /\ UNCHANGED <<poolVars, netVars, srvVars, moreVars>>



NextStore ==
    \/ Open
    \/ \E k \in Keys, v \in Vals : SetCall(k, v)
    \/ \E k \in Keys : GetCall(k)
    \/ \E k \in Keys : RemoveCall(k)
    \/ CompactTruncate
    \/ CompactWrite
    \/ Drop
    \/ Stop

-----------------------------------------------------------------------------
(* SharedQueueThreadPool: new, spawn, job_thread_closure, watcher_thread_closure *)

Jobs == 1 .. MaxJobs
\* every job thread that can come to exist: the first Threads, and one
\* replacement for each job that panics
Tids == 1 .. (Threads + MaxJobs)
Free == 0

RunJob(j) == [type |-> "RunJob", job |-> j]
Shutdown == [type |-> "Shutdown"]

\* VecDeque::push_front / pop_front
push_front(q, m) == <<m>> \o q
\* faulty variant of pop_front: the message is read but stays in the queue
pop_front_keep(q) == q
pop_front(q) == Tail(q)

\* faulty variant of drop_guard: the MutexGuard stays with the thread
drop_guard_keep(holder) == holder
\* drop(job_queue): the MutexGuard is released
drop_guard(holder) == Free

\* faulty variant of watcher_drop: the guard does nothing on a panic
watcher_drop_none(count, panicking) == count
\* ThreadWatcher::drop
watcher_drop(count, panicking) == IF panicking THEN count - 1 ELSE count

\* faulty variant of threads_to_spawn: a whole team is started every time
threads_to_spawn_all(count) == Threads
\* watcher_thread_closure: threads - threads_spawned.load()
threads_to_spawn(count) == Threads - count

\* SharedQueueThreadPool::new
InitPool ==
    /\ job_queue = <<>>
    /\ mutex = Free
    /\ threads_spawned = Threads
    /\ tpc = [t \in Tids |-> IF t <= Threads THEN "lock" ELSE "unborn"]
    /\ tjob = [t \in Tids |-> 0]
    /\ wpc = "load"
    /\ new_to_spawn = 0
    /\ next_tid = Threads
    /\ spawned = 0
    /\ panics \in SUBSET Jobs
    /\ executed = [j \in Jobs |-> 0]
    /\ poisoned = FALSE
    /\ dropped = FALSE

\* SharedQueueThreadPool::spawn: lock, push_front, unlock.  The caller owns
\* the pool value; on a poisoned Mutex the expect panics and nothing is pushed.
Spawn ==
    /\ spawned < MaxJobs
    /\ ~dropped
    /\ mutex = Free
    /\ spawned' = spawned + 1
    /\ job_queue' = IF poisoned THEN job_queue
                    ELSE push_front(job_queue, RunJob(spawned + 1))
    /\ UNCHANGED <<mutex, threads_spawned, tpc, tjob, wpc, new_to_spawn,
                   next_tid, panics, executed, poisoned, dropped>>
    /\ UNCHANGED <<storeVars, netVars, srvVars, moreVars>>

\* job_thread_closure: job_queue.lock().expect(..); on a poisoned Mutex the
\* expect panics
JobLock(t) ==
    /\ tpc[t] = "lock"
    /\ mutex = Free
    /\ IF poisoned
       THEN /\ tpc' = [tpc EXCEPT ![t] = "unwind"]
            /\ UNCHANGED mutex
       ELSE /\ mutex' = t
            /\ tpc' = [tpc EXCEPT ![t] = "pop"]
    /\ UNCHANGED <<job_queue, threads_spawned, tjob, wpc, new_to_spawn,
                   next_tid, spawned, panics, executed, poisoned,
                   dropped>>
    /\ UNCHANGED <<storeVars, netVars, srvVars, moreVars>>

\* job_thread_closure: pop_front and the match up to drop(job_queue); the
\* guard is released at the end of the iteration when there is no message
\* and on break when the message is Shutdown
JobPop(t) ==
    /\ tpc[t] = "pop"
    /\ mutex = t
    /\ IF job_queue = <<>>
       THEN /\ mutex' = Free
            /\ tpc' = [tpc EXCEPT ![t] = "lock"]
            /\ UNCHANGED <<job_queue, tjob>>
       ELSE /\ job_queue' = pop_front(job_queue)
            /\ IF Head(job_queue).type = "RunJob"
               THEN /\ mutex' = drop_guard(t)
                    /\ tpc' = [tpc EXCEPT ![t] = "run"]
                    /\ tjob' = [tjob EXCEPT ![t] = Head(job_queue).job]
               ELSE /\ mutex' = Free
                    /\ tpc' = [tpc EXCEPT ![t] = "exit"]
                    /\ UNCHANGED tjob
    /\ UNCHANGED <<threads_spawned, wpc, new_to_spawn, next_tid, spawned,
                   panics, executed, poisoned, dropped>>
    /\ UNCHANGED <<storeVars, netVars, srvVars, moreVars>>

\* job_thread_closure: job()
JobRun(t) ==
    /\ tpc[t] = "run"
    /\ executed' = [executed EXCEPT ![tjob[t]] = @ + 1]
    /\ tpc' = [tpc EXCEPT ![t] = IF tjob[t] \in panics THEN "unwind" ELSE "lock"]
    /\ tjob' = [tjob EXCEPT ![t] = 0]
    /\ UNCHANGED <<job_queue, mutex, threads_spawned, wpc, new_to_spawn,
                   next_tid, spawned, panics, poisoned, dropped>>
    /\ UNCHANGED <<storeVars, netVars, srvVars, moreVars>>

\* the thread ends: _watcher is dropped, while unwinding from a panic
\* ("ended") or after the break ("returned").  A MutexGuard the thread still holds is dropped as well,
\* and dropping it while unwinding poisons the Mutex.
JobEnd(t) ==
    /\ tpc[t] \in {"unwind", "exit"}
    /\ threads_spawned' = watcher_drop(threads_spawned, tpc[t] = "unwind")
    /\ tpc' = [tpc EXCEPT ![t] = IF tpc[t] = "unwind" THEN "ended" ELSE "returned"]
    /\ mutex' = IF mutex = t THEN Free ELSE mutex
    /\ poisoned' = (poisoned \/ (mutex = t /\ tpc[t] = "unwind"))
    /\ UNCHANGED <<job_queue, tjob, wpc, new_to_spawn, next_tid,
                   spawned, panics, executed, dropped>>
    /\ UNCHANGED <<storeVars, netVars, srvVars, moreVars>>

\* watcher_thread_closure: let new_to_spawn = ..; the for loop is entered
\* when it is not 0
WatchLoad ==
    /\ wpc = "load"
    /\ new_to_spawn' = threads_to_spawn(threads_spawned)
    /\ wpc' = IF threads_to_spawn(threads_spawned) > 0 THEN "add" ELSE "load"
    /\ UNCHANGED <<job_queue, mutex, threads_spawned, tpc, tjob, next_tid,
                   spawned, panics, executed, poisoned, dropped>>
    /\ UNCHANGED <<storeVars, netVars, srvVars, moreVars>>

\* watcher_thread_closure: shared_threads_spawned.fetch_add(1)
WatchAdd ==
    /\ wpc = "add"
    /\ threads_spawned' = threads_spawned + 1
    /\ wpc' = "spawn"
    /\ UNCHANGED <<job_queue, mutex, tpc, tjob, new_to_spawn, next_tid,
                   spawned, panics, executed, poisoned, dropped>>
    /\ UNCHANGED <<storeVars, netVars, srvVars, moreVars>>

\* watcher_thread_closure: std::thread::spawn(job_thread_closure), end of the
\* loop body
WatchSpawn ==
    /\ wpc = "spawn"
    /\ next_tid + 1 \in Tids
    /\ next_tid' = next_tid + 1
    /\ tpc' = [tpc EXCEPT ![next_tid + 1] = "lock"]
    /\ new_to_spawn' = new_to_spawn - 1
    /\ wpc' = IF new_to_spawn - 1 > 0 THEN "add" ELSE "load"
    /\ UNCHANGED <<job_queue, mutex, threads_spawned, tjob, spawned, panics,
                   executed, poisoned, dropped>>
    /\ UNCHANGED <<storeVars, netVars, srvVars, moreVars>>
\* the SharedQueueThreadPool value goes out of scope: the struct has no Drop
\* impl, so only its Arc handle on the queue is released
DropPool ==
    /\ ~dropped
    /\ dropped' = TRUE
    /\ UNCHANGED <<job_queue, mutex, threads_spawned, tpc, tjob, wpc,
                   new_to_spawn, next_tid, spawned, panics, executed,
                   poisoned>>
    /\ UNCHANGED <<storeVars, netVars, srvVars, moreVars>>

JobThread(t) == JobLock(t) \/ JobPop(t) \/ JobRun(t) \/ JobEnd(t)
Watcher == WatchLoad \/ WatchAdd \/ WatchSpawn

-----------------------------------------------------------------------------
(* Specifications *)

\* no second handle
NoHandle ==
    /\ index2 = EmptyIndex
    /\ pc2 = "closed"
    /\ cur2 = NoCall
    /\ ret2 = NoCall
    /\ want2 = None

\* no caller of another pool than the shared-queue pool
NoCaller ==
    /\ kind = "shared"
    /\ caller_pc = "idle"
    /\ caller_job = 0
    /\ job_state = [j \in Jobs |-> "none"]

NoMore == NoHandle /\ NoCaller

\* the store alone: the pool stays as constructed
StoreOnly ==
    /\ job_queue = <<>>
    /\ mutex = Free
    /\ threads_spawned = Threads
    /\ tpc = [t \in Tids |-> IF t <= Threads THEN "lock" ELSE "unborn"]
    /\ tjob = [t \in Tids |-> 0]
    /\ wpc = "load"
    /\ new_to_spawn = 0
    /\ next_tid = Threads
    /\ spawned = 0
    /\ panics = {}
    /\ executed = [j \in Jobs |-> 0]
    /\ poisoned = FALSE
    /\ dropped = FALSE

Init == InitStore /\ StoreOnly /\ NoNet /\ NoServer /\ NoMore
Next == NextStore
Spec == Init /\ [][Next]_vars

-----------------------------------------------------------------------------
(* Two KvStore values open on the same directory (benches.rs: store_1,      *)
(* store_2).  KvStore is not Clone: another handle is another KvStore::open, *)
(* with an index, a cache and a reader of its own; only the file is shared.  *)

\* KvStore::open through the second value: the index is built from the file
\* as it is now; a log over the threshold is compacted (truncate and write,
\* here in one step)
OtherOpen ==
    /\ pc2 = "closed"
    /\ pc \in {"closed", "open"}
    /\ pc2' = "open"
    /\ cur2' = <<"open">>
    /\ ret2' = Ok(Unit)
    /\ index2' = generate_index(log, EmptyIndex)
    /\ log' = IF should_compact_log(log) THEN compact_lines(log) ELSE log
    /\ UNCHANGED want2
    /\ UNCHANGED <<index, cache, cached_commands, new_log, pc, cur, ret, last,
                   was, len_before, pre_get, pre_log, compacted, before_drop,
                   crashed, ops>>
    /\ UNCHANGED <<poolVars, netVars, srvVars, callVars>>

\* KvStore::get through the second value, between the calls of the first
OtherGet(k) ==
    /\ pc2 = "open"
    /\ pc \in {"closed", "open"}
    /\ cur2' = <<"get", k>>
    /\ want2' = last[k]
    /\ ret2' = get(index2, log, k)
    /\ UNCHANGED <<index2, pc2>>
    /\ UNCHANGED <<storeVars, poolVars, netVars, srvVars, callVars>>

\* both values are opened on an empty directory
HandlesInit ==
    /\ InitStore /\ StoreOnly /\ NoNet /\ NoServer /\ NoMore
    /\ log = <<>>
HandlesNext ==
    \/ Open
    \/ \E k \in Keys, v \in Vals : SetCall(k, v)
    \/ \E k \in Keys : GetCall(k)
    \/ \E k \in Keys : RemoveCall(k)
    \/ Drop
    \/ OtherOpen
    \/ \E k \in Keys : OtherGet(k)
HandlesSpec == HandlesInit /\ [][HandlesNext]_vars

-----------------------------------------------------------------------------
(* compact_log on a log file given record by record *)

MaxLog == 4
Records == {SetCmd(k, v) : k \in Keys, v \in Vals} \cup {RemoveCmd(k) : k \in Keys}

\* the file gets one record more
AppendRecord(command) ==
    /\ pc = "closed"
    /\ Len(log) < MaxLog
    /\ log' = Append(log, to_string(command))
    /\ last' = values_of(Append(log, to_string(command)))
    /\ UNCHANGED <<index, cache, cached_commands, new_log, pc, cur, ret, was,
                   len_before, pre_get, pre_log, compacted, before_drop,
                   crashed, ops>>
    /\ UNCHANGED <<poolVars, netVars, srvVars, moreVars>>

\* compact_log is called on the file
CompactLog ==
    /\ pc = "closed"
    /\ pc' = "compact_log"
    /\ cur' = <<"compact_log">>
    /\ pre_log' = log
    /\ len_before' = Len(log)
    /\ UNCHANGED <<log, index, cache, cached_commands, new_log, ret, last, was,
                   pre_get, compacted, before_drop, crashed, ops>>
    /\ UNCHANGED <<poolVars, netVars, srvVars, moreVars>>

CompactInit ==
    /\ InitStore /\ StoreOnly /\ NoNet /\ NoServer /\ NoMore
    /\ log = <<>>
CompactNext ==
    \/ \E command \in Records : AppendRecord(command)
    \/ CompactLog
    \/ CompactTruncate
    \/ CompactWrite
CompactSpec == CompactInit /\ [][CompactNext]_vars

\* the pool alone, on a directory without a log and no store opened
PoolOnly ==
    /\ InitStore
    /\ log = <<>>

PoolInit == PoolOnly /\ InitPool /\ NoNet /\ NoServer /\ NoMore
PoolNext ==
    \/ Spawn
    \/ \E t \in Tids : JobLock(t)
    \/ \E t \in Tids : JobPop(t)
    \/ \E t \in Tids : JobRun(t)
    \/ \E t \in Tids : JobEnd(t)
    \/ WatchLoad
    \/ WatchAdd
    \/ WatchSpawn
    \/ DropPool

-----------------------------------------------------------------------------
(* ThreadPool::spawn of the three implementations, seen from its caller *)

PoolKinds == {"naive", "shared", "rayon"}

\* NaiveThreadPool::spawn: std::thread::spawn starts a thread for the job
\* and returns its handle at once; the handle is dropped
NaiveSpawn ==
    /\ kind = "naive"
    /\ caller_pc = "idle"
    /\ spawned < MaxJobs
    /\ spawned' = spawned + 1
    /\ caller_job' = spawned + 1
    /\ job_state' = [job_state EXCEPT ![spawned + 1] = "submitted"]
    /\ UNCHANGED <<kind, caller_pc>>
    /\ UNCHANGED <<job_queue, mutex, threads_spawned, tpc, tjob, wpc,
                   new_to_spawn, next_tid, panics, executed, poisoned, dropped>>
    /\ UNCHANGED <<storeVars, netVars, srvVars, hdlVars>>

\* rayon::ThreadPool::install(op): op is handed to a thread of the pool and
\* the calling thread is held until op has completed
install_returns(state) == state \in {"done", "panicked"}

\* RayonThreadPool::spawn, entering self.pool.install(job)
RayonSpawn ==
    /\ kind = "rayon"
    /\ caller_pc = "idle"
    /\ spawned < MaxJobs
    /\ spawned' = spawned + 1
    /\ caller_job' = spawned + 1
    /\ caller_pc' = "install"
    /\ job_state' = [job_state EXCEPT ![spawned + 1] = "submitted"]
    /\ UNCHANGED kind
    /\ UNCHANGED <<job_queue, mutex, threads_spawned, tpc, tjob, wpc,
                   new_to_spawn, next_tid, panics, executed, poisoned, dropped>>
    /\ UNCHANGED <<storeVars, netVars, srvVars, hdlVars>>

\* RayonThreadPool::spawn, install returning: the result of the job comes
\* back to the caller, a panic of the job is resumed in the caller
InstallReturn ==
    /\ caller_pc = "install"
    /\ install_returns(job_state[caller_job])
    /\ caller_pc' = IF job_state[caller_job] = "panicked" THEN "panicked" ELSE "idle"
    /\ UNCHANGED <<kind, caller_job, job_state>>
    /\ UNCHANGED <<storeVars, poolVars, netVars, srvVars, hdlVars>>

\* the thread of the naive pool, or a thread of the rayon pool, starts the job
StartJob(j) ==
    /\ job_state[j] = "submitted"
    /\ job_state' = [job_state EXCEPT ![j] = "running"]
    /\ UNCHANGED <<kind, caller_pc, caller_job>>
    /\ UNCHANGED <<storeVars, poolVars, netVars, srvVars, hdlVars>>

\* job() returns or panics
FinishJob(j) ==
    /\ job_state[j] = "running"
    /\ job_state' = [job_state EXCEPT ![j] = IF j \in panics THEN "panicked" ELSE "done"]
    /\ executed' = [executed EXCEPT ![j] = @ + 1]
    /\ UNCHANGED <<kind, caller_pc, caller_job>>
    /\ UNCHANGED <<job_queue, mutex, threads_spawned, tpc, tjob, wpc,
                   new_to_spawn, next_tid, spawned, panics, poisoned, dropped>>
    /\ UNCHANGED <<storeVars, netVars, srvVars, hdlVars>>

\* a pool of one of the three kinds and the thread that calls spawn on it
SpawnInit ==
    /\ PoolOnly /\ InitPool /\ NoNet /\ NoServer /\ NoHandle
    /\ kind \in PoolKinds
    /\ caller_pc = "idle"
    /\ caller_job = 0
    /\ job_state = [j \in Jobs |-> "none"]
SpawnNext ==
    \/ NaiveSpawn
    \/ RayonSpawn
    \/ InstallReturn
    \/ \E j \in Jobs : StartJob(j)
    \/ \E j \in Jobs : FinishJob(j)
    \/ kind = "shared" /\ Spawn
    \/ \E t \in Tids : kind = "shared" /\ JobLock(t)
    \/ \E t \in Tids : kind = "shared" /\ JobPop(t)
    \/ \E t \in Tids : kind = "shared" /\ JobRun(t)
    \/ \E t \in Tids : kind = "shared" /\ JobEnd(t)
    \/ kind = "shared" /\ WatchLoad
    \/ kind = "shared" /\ WatchAdd
    \/ kind = "shared" /\ WatchSpawn
SpawnSpec == SpawnInit /\ [][SpawnNext]_vars

\* every job thread and the watcher are OS threads: each keeps being scheduled
PoolSpec ==
    /\ PoolInit
    /\ [][PoolNext]_vars
    /\ \A t \in Tids : WF_vars(JobThread(t))
    /\ WF_vars(Watcher)

-----------------------------------------------------------------------------
(* Claims about the store *)

\* the store is open and no call is in progress
Idle == pc = "open"

\* C1: after every set/remove call, get(k) returns Ok(Some(v)) for the value v
\* of the last set on k, and Ok(None) when k was never set or was last removed.
C1Claim ==
    (Idle /\ ~crashed) => \A k \in Keys : get(index, log, k) = Ok(last[k])

\* C2: after drop and reopen on the same directory every key has the get
\* result it had before the drop.
C2Claim ==
    (Idle /\ cur = <<"open">> /\ ~crashed /\ before_drop # NoGets)
        => all_gets(index, log) = before_drop

\* C3: when a write or an open ran compact_log, every key has afterwards the
\* get result it had with the uncompacted log.
C3Claim ==
    (Idle /\ compacted) => all_gets(index, log) = pre_get

\* C4: at every step of compact_log the file at the log path is either the
\* complete pre-compaction log or the complete compacted log.
C4Claim ==
    (pc \in {"compact_log", "compact_write"})
        => (log = pre_log \/ log = compact_lines(pre_log))

\* C5: remove(k) of an absent key fails with "Key not found" and appends no
\* record; remove(k) of a present key returns Ok.
C5Claim ==
    (Idle /\ cur[1] = "remove" /\ ~crashed)
        => IF was = None
           THEN ret = Err("Key not found") /\ Len(log) = len_before
           ELSE ret = Ok(Unit)

\* C6: between calls, for every key k with index[k] = o, line o of the log
\* exists and is a Set record for k.
C6Claim ==
    Idle => \A k \in keys_of(index) :
                /\ index[k] < Len(log)
                /\ log[index[k] + 1][1] = "Set"
                /\ log[index[k] + 1][2][1] = k

\* C7: between calls, the keys of the index are exactly the keys whose most
\* recent record in the log file is a Set.
C7Theorem ==
    Idle => keys_of(index) = {k \in Keys : value_of(log, k) # None}

\* C7 witness: after a compaction the index holds one key and lacks another
\* whose most recent record is a Remove.
C7Witness ==
    /\ Idle /\ compacted
    /\ \E k \in Keys : contains_key(index, k)
    /\ \E k \in Keys : ~contains_key(index, k) /\ last_line(log, k) # 0

\* C8: the log written by compaction has exactly one Set record for each
\* present key, no Remove record and no Set record of a removed key.
C8Claim ==
    (Idle /\ compacted)
        => /\ \A i \in 1 .. Len(log) : log[i][1] = "Set"
           /\ \A k \in Keys :
                 Cardinality({i \in 1 .. Len(log) : concerns(log[i], k)})
                    = IF value_of(pre_log, k) # None THEN 1 ELSE 0

-----------------------------------------------------------------------------
(* Claims about the shared-queue pool *)

\* the job threads that are running (neither unborn, panicking nor ended)
Alive == Cardinality({t \in Tids : tpc[t] \in {"lock", "pop", "run"}})

\* C9: every job passed to spawn is run at most once, and with every thread
\* scheduled fairly each spawned job is eventually run exactly once, also
\* when other jobs panic.
C9Theorem ==
    /\ [](\A j \in Jobs : executed[j] <= 1)
    /\ \A j \in Jobs : [](spawned >= j => <>(executed[j] = 1))

\* C9 witness: all jobs were spawned and run once, some of them panicked and
\* one that did not was run by a replacement thread's pool.
C9Witness ==
    /\ spawned = MaxJobs
    /\ \A j \in Jobs : executed[j] = 1
    /\ panics # {} /\ panics # Jobs
    /\ next_tid > Threads

\* C10: the running job threads never exceed the configured number, and with
\* the watcher scheduled fairly their number returns to it after every panic.
C10Theorem ==
    /\ [](Alive <= Threads)
    /\ (Alive < Threads) ~> (Alive = Threads)

\* C10 witness: a job thread has ended in a panic, a replacement was started
\* and the pool has its configured number of running threads again.
C10Witness ==
    /\ \E t \in Tids : tpc[t] = "ended"
    /\ next_tid > Threads
    /\ Alive = Threads
    /\ threads_spawned = Threads

-----------------------------------------------------------------------------
(* Claims about the queue of the pool *)

\* C11: the queue is FIFO: a job passed to spawn before another one leaves
\* the queue before it.  Job numbers are the order of the spawn calls, so
\* whenever a thread takes a job no job with a smaller number is left queued.
C11Claim ==
    [][\A t \in Tids :
          (tpc[t] = "pop" /\ tpc'[t] = "run")
              => \A i \in 1 .. Len(job_queue') : job_queue'[i].job > tjob'[t]]_vars

\* C12: no job thread runs a job (or panics in one) while it holds the queue
\* Mutex, so the Mutex is never poisoned nor left with a thread that ended.
C12Theorem ==
    /\ \A t \in Tids : tpc[t] \in {"run", "unwind", "ended"} => mutex # t
    /\ ~poisoned

\* C12 witness: a job thread has panicked and ended, and a thread started
\* after that panic holds the Mutex.
C12Witness ==
    /\ \E t \in Tids : tpc[t] = "ended"
    /\ \E t \in Tids : t > Threads /\ mutex = t /\ tpc[t] = "pop"

\* C13: once the pool value is dropped, eventually no job thread of the pool
\* is running.
C13Claim == dropped ~> (Alive = 0)

-----------------------------------------------------------------------------
(* network.rs, kvs-server.rs, kvs-client.rs: requests and responses as text.
   A String is the sequence of its characters. *)

SET_CODE == <<"s", "e", "t">>
GET_CODE == <<"g", "e", "t">>
REMOVE_CODE == <<"r", "m">>
OK_TEXT == <<"O", "K">>
FAIL_TEXT == <<"F", "A", "I", "L">>
KEY_NOT_FOUND == <<"K", "e", "y", " ", "n", "o", "t", " ", "f", "o", "u", "n", "d">>

\* the thread panics
Panic == <<"Panic">>

\* pieces a text is put together from, and the longest text in pieces
Pieces == {SET_CODE, GET_CODE, REMOVE_CODE, <<"a">>, <<" ">>, <<"\n">>}
MaxPieces == 5

\* characters and length of the keys and values of an Operation or Response
WordChars == {"a", "b", " ", "\n"}
MaxWord == 2
Words == (UNION {[1 .. n -> WordChars] : n \in 0 .. MaxWord})
             \cup {SET_CODE, GET_CODE, REMOVE_CODE}

\* Operation
OpSet(key, value) == <<"Set", key, value>>
OpGet(key) == <<"Get", key>>
OpRemove(key) == <<"Remove", key>>
Operations ==
    {OpSet(k, v) : k \in Words, v \in Words}
        \cup {OpGet(k) : k \in Words} \cup {OpRemove(k) : k \in Words}

\* ResponseStatus and Response
ResponseStatus_Ok == "Ok"
ResponseStatus_Fail == "Fail"
Response(status, data) == [status |-> status, data |-> data]
Responses ==
    {Response(st, d) : st \in {ResponseStatus_Ok, ResponseStatus_Fail},
                       d \in {None} \cup {Some(w) : w \in Words}}

\* str::split(' '): the pieces between the spaces, at least one piece
RECURSIVE split(_)
split(s) ==
    IF \A i \in 1 .. Len(s) : s[i] # " "
    THEN <<s>>
    ELSE LET i == CHOOSE i \in 1 .. Len(s) :
                      s[i] = " " /\ \A j \in 1 .. (i - 1) : s[j] # " "
         IN <<SubSeq(s, 1, i - 1)>> \o split(SubSeq(s, i + 1, Len(s)))

\* faulty variant of remove_newline_from_end: the text is returned as it is
remove_newline_from_end_keep(string) ==
    IF Len(string) = 0 THEN Panic ELSE string
\* remove_newline_from_end.  For the empty String len - 1 overflows usize: a
\* panic at the subtraction or, when it wraps, in split_at.
remove_newline_from_end(string) ==
    LET len == Len(string)
    IN IF len = 0
       THEN Panic
       ELSE LET halves == <<SubSeq(string, 1, len - 1), SubSeq(string, len, len)>>
            IN IF halves[2] = <<"\n">> THEN halves[1] ELSE string

\* faulty variant of str_eq: the token only has to begin with the code
str_eq_prefix(token, code) ==
    Len(token) >= Len(code) /\ SubSeq(token, 1, Len(code)) = code
\* v[0] == SET_CODE: equality of two strings
str_eq(token, code) == token = code

\* Operation::from_text; v[1] and v[2] panic when the Vec is too short
Operation_from_text(req) ==
    LET stripped == remove_newline_from_end(req)
    IN IF stripped = Panic
       THEN Panic
       ELSE LET v == split(stripped)
            IN IF str_eq(v[1], SET_CODE)
               THEN IF Len(v) < 3 THEN Panic ELSE Ok(OpSet(v[2], v[3]))
               ELSE IF str_eq(v[1], GET_CODE)
               THEN IF Len(v) < 2 THEN Panic ELSE Ok(OpGet(v[2]))
               ELSE IF str_eq(v[1], REMOVE_CODE)
               THEN IF Len(v) < 2 THEN Panic ELSE Ok(OpRemove(v[2]))
               ELSE Err("Request does not start with a valid operation code")

\* Operation::to_text
Operation_to_text(op) ==
    CASE op[1] = "Get" -> GET_CODE \o <<" ">> \o op[2]
      [] op[1] = "Remove" -> REMOVE_CODE \o <<" ">> \o op[2]
      [] op[1] = "Set" -> SET_CODE \o <<" ">> \o op[2] \o <<" ">> \o op[3]

\* writeln!(stream, "{}", text)
writeln(t) == t \o <<"\n">>

\* BufRead::read_line on the bytes of a stream that is then at its end: up to
\* and with the first newline, everything when there is none
read_line(bytes) ==
    IF \A i \in 1 .. Len(bytes) : bytes[i] # "\n"
    THEN bytes
    ELSE SubSeq(bytes, 1, CHOOSE i \in 1 .. Len(bytes) :
                              bytes[i] = "\n" /\ \A j \in 1 .. (i - 1) : bytes[j] # "\n")

\* ResponseStatus::from_text
ResponseStatus_from_text(t) ==
    LET trimmed == remove_newline_from_end(t)
    IN IF trimmed = Panic THEN Panic
       ELSE IF trimmed = OK_TEXT THEN Ok(ResponseStatus_Ok)
       ELSE IF trimmed = FAIL_TEXT THEN Ok(ResponseStatus_Fail)
       ELSE Err("Text could not be converted to response status")

\* Response::from_text; the ? hands an Err of ResponseStatus::from_text on
Response_from_text(req) ==
    LET v == split(req)
    IN IF Len(v) = 2
       THEN LET status == ResponseStatus_from_text(v[1])
            IN IF status[1] = "Ok"
               THEN Ok(Response(status[2], Some(v[2])))
               ELSE status
       ELSE IF Len(v) = 1
       THEN LET status == ResponseStatus_from_text(v[1])
            IN IF status[1] = "Ok"
               THEN Ok(Response(status[2], None))
               ELSE status
       ELSE Err("Text could not be parsed to Response")

\* Response::to_text
Response_to_text(r) ==
    IF r.status = ResponseStatus_Ok
    THEN IF r.data # None
         THEN OK_TEXT \o <<" ">> \o r.data[2]
         ELSE OK_TEXT
    ELSE FAIL_TEXT

\* kvs-server parse_request: the code of Operation::from_text with the
\* operation codes written out
parse_request(req) ==
    LET stripped == remove_newline_from_end(req)
    IN IF stripped = Panic
       THEN Panic
       ELSE LET v == split(stripped)
            IN IF str_eq(v[1], <<"s", "e", "t">>)
               THEN IF Len(v) < 3 THEN Panic ELSE Ok(OpSet(v[2], v[3]))
               ELSE IF str_eq(v[1], <<"g", "e", "t">>)
               THEN IF Len(v) < 2 THEN Panic ELSE Ok(OpGet(v[2]))
               ELSE IF str_eq(v[1], <<"r", "m">>)
               THEN IF Len(v) < 2 THEN Panic ELSE Ok(OpRemove(v[2]))
               ELSE Err("Request does not start with a valid operation code")

\* kvs-client get: what it writes to stdout for the response line it read
client_get(response) ==
    LET v == split(response)
    IN IF v[1] = OK_TEXT
       THEN IF Len(v) < 2 THEN Panic ELSE v[2]
       ELSE writeln(KEY_NOT_FOUND)

\* kvs-client main: the exit status of the process for the response line it
\* read.  An Err returned by main ends the process with status 1, a panic
\* (v[1] out of bounds) with status 101.
client_exit(sub, response) ==
    CASE sub = "set" -> IF response = writeln(OK_TEXT) THEN 0 ELSE 1
      [] sub = "get" ->
             LET v == split(response)
             IN IF v[1] = OK_TEXT
                THEN IF Len(v) < 2 THEN 101 ELSE 0
                ELSE 0
      [] sub = "rm" -> IF response = writeln(OK_TEXT) THEN 0 ELSE 1

\* a text is put together, one piece more
Type(p) ==
    /\ net_call = "none"
    /\ typed < MaxPieces
    /\ typed' = typed + 1
    /\ text' = text \o p
    /\ UNCHANGED <<net_call, net_in, net_out>>
    /\ UNCHANGED <<storeVars, poolVars, srvVars, moreVars>>

\* Operation::from_text applied to the text
FromText ==
    /\ net_call = "none"
    /\ net_call' = "Operation::from_text"
    /\ net_out' = Operation_from_text(text)
    /\ UNCHANGED <<text, typed, net_in>>
    /\ UNCHANGED <<storeVars, poolVars, srvVars, moreVars>>

\* parse_request applied to the text
ParseRequest ==
    /\ net_call = "none"
    /\ net_call' = "parse_request"
    /\ net_out' = parse_request(text)
    /\ UNCHANGED <<text, typed, net_in>>
    /\ UNCHANGED <<storeVars, poolVars, srvVars, moreVars>>

\* Operation::write_to_stream on one side of a connection, and
\* Operation::read_from_stream on the other
OperationRoundTrip(op) ==
    /\ net_call = "none"
    /\ typed = 0
    /\ net_call' = "Operation::read_from_stream"
    /\ net_in' = op
    /\ text' = writeln(Operation_to_text(op))
    /\ net_out' = Operation_from_text(read_line(writeln(Operation_to_text(op))))
    /\ UNCHANGED typed
    /\ UNCHANGED <<storeVars, poolVars, srvVars, moreVars>>

\* Response::write_to_stream on one side of a connection, and
\* Response::read_from_stream on the other
ResponseRoundTrip(r) ==
    /\ net_call = "none"
    /\ typed = 0
    /\ net_call' = "Response::read_from_stream"
    /\ net_in' = r
    /\ text' = writeln(Response_to_text(r))
    /\ net_out' = Response_from_text(read_line(writeln(Response_to_text(r))))
    /\ UNCHANGED typed
    /\ UNCHANGED <<storeVars, poolVars, srvVars, moreVars>>

\* Response::write_to_stream on one side of a connection, and the get
\* subcommand of kvs-client on the other
ClientGet(r) ==
    /\ net_call = "none"
    /\ typed = 0
    /\ net_call' = "kvs-client get"
    /\ net_in' = r
    /\ text' = writeln(Response_to_text(r))
    /\ net_out' = client_get(read_line(writeln(Response_to_text(r))))
    /\ UNCHANGED typed
    /\ UNCHANGED <<storeVars, poolVars, srvVars, moreVars>>

\* Response::write_to_stream on one side of a connection, and one of the
\* subcommands of kvs-client on the other, up to the exit of the process
ClientRun(sub, r) ==
    /\ net_call = "none"
    /\ typed = 0
    /\ net_call' = "kvs-client"
    /\ net_in' = [subcommand |-> sub, response |-> r]
    /\ text' = writeln(Response_to_text(r))
    /\ net_out' = client_exit(sub, read_line(writeln(Response_to_text(r))))
    /\ UNCHANGED typed
    /\ UNCHANGED <<storeVars, poolVars, srvVars, moreVars>>

\* the functions of network.rs alone: no store opened, no pool, no server
NetInit == PoolOnly /\ StoreOnly /\ NoNet /\ NoServer /\ NoMore
NetNext ==
    \/ \E p \in Pieces : Type(p)
    \/ FromText
    \/ ParseRequest
    \/ \E op \in Operations : OperationRoundTrip(op)
    \/ \E r \in Responses : ResponseRoundTrip(r)
    \/ \E r \in Responses : ClientGet(r)
    \/ \E sub \in {"set", "get", "rm"}, r \in Responses : ClientRun(sub, r)
NetSpec == NetInit /\ [][NetNext]_vars

-----------------------------------------------------------------------------
(* Claims about requests and responses as text *)

\* a key or value as the protocol allows it: not empty, no space, no newline
Clean(w) == Len(w) > 0 /\ \A i \in 1 .. Len(w) : w[i] \notin {" ", "\n"}

\* the first whitespace-separated token of a text, <<>> when it has none
first_token(s) ==
    LET starts == {i \in 1 .. Len(s) : s[i] \notin {" ", "\n"}}
    IN IF starts = {} THEN <<>>
       ELSE LET a == CHOOSE i \in starts : \A j \in starts : i <= j
                stops == {i \in a .. Len(s) : s[i] \in {" ", "\n"}}
                b == IF stops = {} THEN Len(s) + 1
                     ELSE CHOOSE i \in stops : \A j \in stops : i <= j
            IN SubSeq(s, a, b - 1)

\* C17: a response line OK <value> written by Response::write_to_stream is
\* read back as status Ok with data exactly <value>, and the get subcommand
\* of the client prints exactly <value>.
C17Claim ==
    (net_call \in {"Response::read_from_stream", "kvs-client get"}
         /\ net_in.status = ResponseStatus_Ok
         /\ net_in.data # None /\ Clean(net_in.data[2]))
        => IF net_call = "kvs-client get"
           THEN net_out = net_in.data[2]
           ELSE net_out = Ok(net_in)

\* C18: a request text whose first whitespace-separated token is none of
\* set, get, rm is answered by both parsers with an Err, never an Operation.
C18Theorem ==
    (net_call \in {"Operation::from_text", "parse_request"}
         /\ first_token(text) # <<>>
         /\ first_token(text) \notin {SET_CODE, GET_CODE, REMOVE_CODE})
        => net_out[1] = "Err"

\* C18 witness: a parser has answered a text that begins with a token other
\* than the three codes.
C18Witness ==
    /\ net_call = "parse_request"
    /\ first_token(text) = SET_CODE \o <<"a">>
    /\ Len(split(text)) >= 2
    /\ net_out[1] = "Err"

\* C19: the request parsers never panic: for every text, the empty one and
\* set k, get, rm included, they return an Operation or an Err.
C19Claim ==
    (net_call \in {"Operation::from_text", "parse_request"})
        => net_out[1] \in {"Ok", "Err"}

\* C20: for an Operation whose key and value are not empty and hold no space
\* and no newline, to_text is one line, and reading back what
\* write_to_stream wrote gives the Operation again.
C20Theorem ==
    (net_call = "Operation::read_from_stream"
         /\ \A i \in 2 .. Len(net_in) : Clean(net_in[i]))
        => /\ \A i \in 1 .. Len(Operation_to_text(net_in)) :
                  Operation_to_text(net_in)[i] # "\n"
           /\ text = writeln(Operation_to_text(net_in))
           /\ net_out = Ok(net_in)

\* C20 witness: a Set with a key and a value of two characters went through
\* the round trip.
C20Witness ==
    /\ net_call = "Operation::read_from_stream"
    /\ net_in = OpSet(<<"a", "b">>, <<"b", "a">>)
    /\ net_out = Ok(net_in)

-----------------------------------------------------------------------------
(* kvs-server: main, handle_connection, handle_operation *)

\* String::from(key) for the store, whose keys and values are the
\* one-character strings of Keys and Vals, and such a value inside a text
String_from(cs) == cs[1]
chars_of(v) == <<v>>

\* what a client sends before it waits for the response: the request lines
\* of the three subcommands, and malformed ones (nothing at all, an empty
\* line, an unknown code, a code with too few arguments)
WellFormed ==
    {writeln(Operation_to_text(OpSet(chars_of(k), chars_of(v)))) : k \in Keys, v \in Vals}
        \cup {writeln(Operation_to_text(OpGet(chars_of(k)))) : k \in Keys}
        \cup {writeln(Operation_to_text(OpRemove(chars_of(k)))) : k \in Keys}
Malformed ==
    {<<>>, <<"\n">>, writeln(<<"p", "u", "t", " ", "a">>), writeln(GET_CODE),
     writeln(SET_CODE \o <<" ", "a">>)}
Requests == WellFormed \cup Malformed

\* handle_operation: the Result it makes of what the store returned
handle_operation(op, store_ret) ==
    CASE op[1] = "Set" -> IF store_ret[1] = "Err" THEN store_ret ELSE Ok(None)
      [] op[1] = "Get" -> store_ret
      [] op[1] = "Remove" -> IF store_ret[1] = "Err" THEN store_ret ELSE Ok(None)

\* handle_connection: the match on op_result
response_text(op_result) ==
    IF op_result[1] = "Ok"
    THEN IF op_result[2] # None
         THEN OK_TEXT \o <<" ">> \o chars_of(op_result[2][2])
         ELSE OK_TEXT
    ELSE FAIL_TEXT

\* main up to the loop: KvStore::new opens the log of the current directory
\* the values of --engine
Engines == {"kvs", "sled"}

\* main up to the loop: the arguments are read (the engine name goes into the
\* logger only), the listener is bound and the store opened with
\* KvStore::new().  Nothing reads or writes a file ./engine.  The process can
\* be started again on the same directory after it ended.
ServerStart(e) ==
    /\ srv_pc \in {"down", "exited", "panicked"}
    /\ engine' = Some(e)
    /\ kv_open
    /\ srv_pc' = "accept"
    /\ UNCHANGED <<request, operation, responses, engine_ops, engine_file>>
    /\ UNCHANGED <<poolVars, netVars, moreVars>>

\* listener.incoming() gives a connection; handle_connection reads a line
\* and parses it.  An Err of parse_request is returned with ?, a panic
\* unwinds: both leave the loop of main.
Accept(sent) ==
    /\ srv_pc = "accept"
    /\ pc = "open"
    /\ ops < MaxOps
    /\ request' = read_line(sent)
    /\ operation' = parse_request(read_line(sent))
    /\ responses' = <<>>
    /\ engine_ops' = 0
    /\ UNCHANGED <<engine, engine_file>>
    /\ srv_pc' = IF parse_request(read_line(sent)) = Panic THEN "panic"
                 ELSE IF parse_request(read_line(sent))[1] = "Err" THEN "return"
                 ELSE "handle"
    /\ UNCHANGED <<storeVars, poolVars, netVars, moreVars>>

\* handle_operation: the call of the store
HandleOperation ==
    /\ srv_pc = "handle"
    /\ LET op == operation[2]
       IN CASE op[1] = "Set" -> kv_set(String_from(op[2]), String_from(op[3]))
            [] op[1] = "Get" -> kv_get(String_from(op[2]))
            [] op[1] = "Remove" -> kv_remove(String_from(op[2]))
    /\ srv_pc' = "respond"
    /\ engine_ops' = engine_ops + 1
    /\ UNCHANGED <<request, operation, responses, engine, engine_file>>
    /\ UNCHANGED <<poolVars, netVars, moreVars>>

\* handle_connection after the store returned: the response is written and
\* the connection closed; main waits for the next one
Respond ==
    /\ srv_pc = "respond"
    /\ pc = "open"
    /\ responses' = Append(responses,
                           writeln(response_text(handle_operation(operation[2], ret))))
    /\ srv_pc' = "accept"
    /\ UNCHANGED <<request, operation, engine_ops, engine, engine_file>>
    /\ UNCHANGED <<storeVars, poolVars, netVars, moreVars>>

\* main ends, returning the Err or unwinding from the panic: the store is
\* dropped and the process exits
Terminate ==
    /\ srv_pc \in {"return", "panic"}
    /\ kv_drop
    /\ srv_pc' = IF srv_pc = "panic" THEN "panicked" ELSE "exited"
    /\ UNCHANGED <<request, operation, responses, engine_ops, engine, engine_file>>
    /\ UNCHANGED <<poolVars, netVars, moreVars>>

\* the server on a directory that may hold the log of an earlier run
ServerInit == InitStore /\ StoreOnly /\ NoNet /\ NoServer /\ NoMore
ServerNext ==
    \/ \E e \in Engines : ServerStart(e)
    \/ \E sent \in Requests : Accept(sent)
    \/ HandleOperation
    \/ Respond
    \/ Terminate
    \/ CompactTruncate
    \/ CompactWrite
ServerSpec == ServerInit /\ [][ServerNext]_vars

-----------------------------------------------------------------------------
(* Claims about the server *)

\* main has left its loop
Stopped == srv_pc \in {"return", "panic", "exited", "panicked"}

\* C14: an error while a connection is handled (malformed line, unknown
\* code, Err of the engine) is answered with FAIL on that connection, and
\* the server goes on accepting connections.
C14Claim ==
    /\ ~Stopped
    /\ (srv_pc = "accept" /\ operation # <<>>
            /\ (operation[1] # "Ok" \/ ret[1] = "Err"))
           => responses = <<writeln(FAIL_TEXT)>>

\* C15: the response to a well-formed request is OK for a set or rm that
\* succeeded, OK <value> for the get of a key that is present, OK alone for
\* the get of a key that is absent, and FAIL for the rm of an absent key.
C15Claim ==
    (srv_pc = "accept" /\ operation # <<>> /\ operation[1] = "Ok")
        => LET op == operation[2]
           IN CASE op[1] = "Set" ->
                       ret[1] = "Ok" => responses = <<writeln(OK_TEXT)>>
                [] op[1] = "Get" ->
                       IF was = None
                       THEN responses = <<writeln(OK_TEXT)>>
                       ELSE responses =
                                <<writeln(OK_TEXT \o <<" ">> \o chars_of(was[2]))>>
                [] op[1] = "Remove" ->
                       IF was = None
                       THEN responses = <<writeln(FAIL_TEXT)>>
                       ELSE ret[1] = "Ok" => responses = <<writeln(OK_TEXT)>>

\* C16: for every connection the server reads one request line, makes at
\* most one call of the engine, and writes exactly one response line, after
\* that call has returned, before it closes the connection.
C16Claim ==
    /\ engine_ops <= 1
    /\ Len(responses) <= 1
    /\ Len(responses) = 1 => (srv_pc = "accept" /\ pc = "open")
    /\ (operation # <<>> /\ srv_pc \in {"accept", "exited", "panicked"})
           => Len(responses) = 1

-----------------------------------------------------------------------------
(* Claims about the client *)

\* C21: the client exits with status 0 when the response of the server is
\* OK, and with a status other than 0 when the response to a get or an rm
\* is FAIL.
C21Claim ==
    (net_call = "kvs-client")
        => (LET sub == net_in.subcommand
                r == net_in.response
            IN IF r.status = ResponseStatus_Ok
               THEN (IF sub = "get"
                     THEN r.data = None \/ Clean(r.data[2])
                     ELSE r.data = None)
                        => (net_out = 0)
               ELSE (sub \in {"get", "rm"}) => (net_out # 0))

(***************************************************************************)
(* Claims about the start of the server                                    *)
(***************************************************************************)

\* C22: a running server has its engine recorded in ./engine: the first
\* start writes the name of its engine there, and a server started with
\* another engine than the recorded one does not run.
C22Claim ==
    (srv_pc \in {"accept", "handle", "respond"}) => (engine_file = engine)

(***************************************************************************)
(* Claims about handles of one store                                       *)
(***************************************************************************)

\* C23: a get(k) through the second handle returns the value last set
\* through the first handle, or None when the key was never set or was
\* removed last; the second handle is not reopened in between.
C23Claim ==
    (pc2 = "open" /\ cur2[1] = "get") => (ret2 = Ok(want2))

(***************************************************************************)
(* Claims about the compaction trigger and the records read by get         *)
(***************************************************************************)

\* C24: when an open, or a set or remove that wrote to the file, has
\* returned, compaction has run in that call if and only if the log the call
\* replayed had more than log_threshold records.
C24Claim ==
    LET replayed == IF compacted THEN pre_log ELSE log
        replays == \/ cur[1] = "open"
                   \/ cur[1] \in {"set", "remove"}
                        /\ (compacted \/ Len(log) > len_before)
    IN (Idle /\ replays) => (compacted <=> (Len(replayed) > log_threshold))

\* C25: a get that returned a value read it from the line at index[k], and
\* that line exists and is a Set record of the key asked for.
C25Claim ==
    (Idle /\ cur[1] = "get" /\ ret[1] = "Ok" /\ ret[2] # None)
        => (/\ contains_key(index, cur[2])
            /\ index[cur[2]] < Len(log)
            /\ from_str(log[index[cur[2]] + 1]).type = "Set"
            /\ from_str(log[index[cur[2]] + 1]).k = cur[2])

(***************************************************************************)
(* Claims about the counter of job threads                                 *)
(***************************************************************************)

\* job threads that were started and have not terminated
Running == Cardinality({t \in Tids : tpc[t] \in {"lock", "pop", "run", "unwind", "exit"}})

\* C27: the counter stays between 0 and the configured number of threads,
\* so threads - counter never underflows, and never more than that number
\* of job threads are running.
C27Theorem ==
    /\ threads_spawned >= 0
    /\ threads_spawned <= Threads
    /\ Running <= Threads
\* a job thread is unwinding from a panic while the watcher, having counted
\* a replacement for an earlier one, is about to start it
C27Witness ==
    /\ wpc = "spawn"
    /\ threads_spawned = Threads
    /\ \E t \in Tids : tpc[t] = "unwind"
    /\ \E t \in Tids : tpc[t] = "ended"

(***************************************************************************)
(* Claims about the caller of spawn                                        *)
(***************************************************************************)

\* C28: the caller of spawn is never held for a job: a caller inside spawn
\* can return although its job has not finished, and in the shared-queue
\* pool the lock that spawn takes is never held by a thread running a job.
C28Claim ==
    /\ (caller_pc = "install") => install_returns(job_state[caller_job])
    /\ \A t \in Tids : (mutex = t) => (tpc[t] # "run")

(***************************************************************************)
(* Claims about the file compact_log writes                                *)
(***************************************************************************)

\* the Set records of key k among the lines
sets_of(lines, k) == {i \in 1 .. Len(lines) : lines[i][1] = "Set" /\ lines[i][2][1] = k}

\* C29: when compact_log has written the file, replaying it (a Set record
\* gives its key the value, a Remove record takes the key away, in the order
\* of the lines) gives every key what replaying the original log gives it,
\* the index and the gets built from the two files agree as well, and the
\* file holds at most one Set record of every key.
C29Theorem ==
    (cur[1] = "compact_log" /\ compacted)
        => /\ values_of(log) = values_of(pre_log)
           /\ all_gets(generate_index(log, EmptyIndex), log)
                  = all_gets(generate_index(pre_log, EmptyIndex), pre_log)
           /\ \A k \in Keys : Cardinality(sets_of(log, k)) <= 1
\* the compacted log had a key that was set, removed and set again
C29Witness ==
    /\ cur[1] = "compact_log" /\ compacted
    /\ \E k \in Keys : \E i, j, l \in 1 .. Len(pre_log) :
           /\ i < j /\ j < l
           /\ i \in sets_of(pre_log, k)
           /\ pre_log[j] = to_string(RemoveCmd(k))
           /\ l \in sets_of(pre_log, k)
    /\ Len(log) < Len(pre_log)

====================================================================
